---------------------------- MODULE Spec2Model ----------------------------
(***************************************************************************)
(* A model of gencsr.py: load a TOML configuration, generate an RSA key,   *)
(* write it as PEM to <hostname>.key, build and sign a PKCS#10 CSR with a  *)
(* SubjectAlternativeName extension, write it as PEM to <hostname>.csr.    *)
(*                                                                         *)
(* Each instance (an operating-system process running main) walks through  *)
(* the statements of main in order.  The two file writes are modelled at   *)
(* the granularity of the source: `outpath.open("wb")` creates or          *)
(* truncates the file, and the `f.write(...)` that is flushed when the     *)
(* with-block closes the file puts the bytes at offset 0.                  *)
(*                                                                         *)
(* File contents are sequences of blocks.  A PEM encoding of an object is  *)
(* a sequence of blocks that all carry the object; encodings of different  *)
(* objects may have different lengths, as the DER integers of an RSA key   *)
(* and the SAN list of a CSR have.                                         *)
(***************************************************************************)
EXTENDS Naturals, Sequences, FiniteSets

(***************************************************************************)
(* Bounds of the model.                                                    *)
(***************************************************************************)
\* runs of main started in one behaviour
MaxRuns == 2
\* a PEM private key takes 1..MaxPemLen blocks
MaxPemLen == 2
\* dns_names lists of the configuration files have at most MaxNames entries
MaxNames == 2

\* operating-system processes that can run main
Procs == {1, 2}
\* values of `hostname` in the configuration files
Hostnames == {"a", "b"}
\* values of the entries of `dns_names`
Names == {"a", "w"}

SeqsUpTo(S, n) == UNION {[1..k -> S] : k \in 0..n}

(***************************************************************************)
(* Configuration files, as the dict toml.load returns: a function whose    *)
(* domain holds the keys present.  `title` stands for any other key.       *)
(* Unreadable is a path that path.open or toml.load raises on.             *)
(***************************************************************************)
Unreadable == [oserror |-> "ENOENT"]

Readable(data) == "oserror" \notin DOMAIN data

ConfigFiles ==
    {[title |-> "t"]}
    \cup {[title |-> "t", dns_names |-> d] : d \in SeqsUpTo(Names, MaxNames)}
    \cup {[hostname |-> h] : h \in Hostnames}
    \cup {[hostname |-> h, dns_names |-> d] :
              h \in Hostnames, d \in SeqsUpTo(Names, MaxNames)}

(***************************************************************************)
(* class Config                                                            *)
(***************************************************************************)
NoCfg == [hostname |-> "", dns_names |-> <<>>]

\* data["hostname"] raises KeyError when the key is absent
HasHostname(data) == "hostname" \in DOMAIN data

\* faulty variant: data.get("dns_names", []), no fallback to the hostname
DnsNamesOrDefault_NoFallback(data) ==
    IF "dns_names" \in DOMAIN data THEN data.dns_names ELSE <<>>

\* data.get("dns_names") or [data["hostname"]]: None and the empty list are falsy
DnsNamesOrDefault(data) ==
    IF "dns_names" \in DOMAIN data /\ data.dns_names # <<>>
    THEN data.dns_names
    ELSE <<data.hostname>>

\* Config.load, for a dict that has "hostname"
load(data) == [hostname |-> data.hostname, dns_names |-> DnsNamesOrDefault(data)]

key_size == 2048

common_name(cfg) == cfg.hostname

key_path(cfg) == cfg.hostname \o ".key"

csr_path(cfg) == cfg.hostname \o ".csr"

\* every Config value the dataclass admits (it checks nothing)
Configurations ==
    {[hostname |-> h, dns_names |-> d] : h \in Hostnames, d \in SeqsUpTo(Names, MaxNames)}

Paths == {key_path(c) : c \in Configurations} \cup {csr_path(c) : c \in Configurations}

(***************************************************************************)
(* Keys and requests.  A key is identified by id: two keys are the same    *)
(* key exactly when their ids are equal, and id is also its public half.   *)
(***************************************************************************)
NoKey == [id |-> 0, bits |-> 0, e |-> 0, pemlen |-> 0]

\* rsa.generate_private_key: the n-th draw from the system's randomness gives
\* a key no earlier draw gave; len is the length of its PEM encoding
generate_key(cfg, n, len) == [id |-> n, bits |-> key_size, e |-> 65537, pemlen |-> len]

public_key(key) == key.id

NoCsr == [subject |-> "", san |-> <<>>, critical |-> FALSE, pubkey |-> 0,
          sig |-> [key |-> 0, hash |-> ""]]

\* faulty variant: the SAN entries are added in reverse
generate_csr_Reversed(cfg, key) ==
    [subject  |-> cfg.hostname,
     san      |-> [i \in 1..Len(cfg.dns_names) |->
                      cfg.dns_names[Len(cfg.dns_names) + 1 - i]],
     critical |-> FALSE,
     pubkey   |-> key.id,
     sig      |-> [key |-> key.id, hash |-> "SHA256"]]

\* faulty variant: the common name is always put first in the SAN list
generate_csr_CnInSan(cfg, key) ==
    [subject  |-> cfg.hostname,
     san      |-> <<cfg.hostname>> \o cfg.dns_names,
     critical |-> FALSE,
     pubkey   |-> key.id,
     sig      |-> [key |-> key.id, hash |-> "SHA256"]]

\* faulty variant: the request is signed with a key of its own, not the one passed
generate_csr_OwnKey(cfg, key) ==
    [subject  |-> cfg.hostname,
     san      |-> cfg.dns_names,
     critical |-> FALSE,
     pubkey   |-> key.id + 1,
     sig      |-> [key |-> key.id + 1, hash |-> "SHA256"]]

\* CertificateSigningRequestBuilder().subject_name(..).add_extension(..).sign(..)
generate_csr(cfg, key) ==
    [subject  |-> common_name(cfg),
     san      |-> [i \in 1..Len(cfg.dns_names) |-> cfg.dns_names[i]],
     critical |-> FALSE,
     pubkey   |-> public_key(key),
     sig      |-> [key |-> key.id, hash |-> "SHA256"]]

(***************************************************************************)
(* PEM encodings and the file system                                       *)
(***************************************************************************)
\* key.private_bytes(PEM, TraditionalOpenSSL, NoEncryption())
private_bytes(key) ==
    [i \in 1..key.pemlen |->
        [label |-> "RSA PRIVATE KEY", encrypted |-> FALSE, key |-> key, part |-> i]]

\* csr.public_bytes(PEM): one block, and one more per SAN entry
public_bytes(csr) ==
    [i \in 1..(1 + Len(csr.san)) |->
        [label |-> "CERTIFICATE REQUEST", csr |-> csr, part |-> i]]

NoFile == [exists |-> FALSE, data |-> <<>>]

\* faulty variant: open(path, "r+b"), which keeps what the file holds
OpenTruncate_Keep(file) == [exists |-> TRUE, data |-> file.data]

\* open(path, "wb"): O_CREAT | O_TRUNC
OpenTruncate(file) == [exists |-> TRUE, data |-> <<>>]

\* faulty variant: open(path, "ab"), every write goes to the end of the file
WriteAtStart_Append(file, bytes) == [exists |-> TRUE, data |-> file.data \o bytes]

\* write(fd, bytes) at offset 0 of a file another process may have written
\* since this one truncated it: the bytes past the written ones stay
WriteAtStart(file, bytes) ==
    [exists |-> TRUE,
     data   |-> bytes \o SubSeq(file.data, Len(bytes) + 1, Len(file.data))]

VARIABLES
    target,    \* the hostname whose two files the runs of one behaviour are for
    fs,        \* path -> file
    pc,        \* process -> where it is in main
    conf,      \* process -> the dict toml.load returned to its Config.load
    cfg,       \* process -> its Config
    key,       \* process -> the key generate_key returned
    csr,       \* process -> the request generate_csr returned
    err,       \* process -> the exception that ended its run, and the statement
    ndraws,    \* keys drawn from the system's randomness so far
    runs,      \* runs of main started so far
    opened,    \* history: process -> the paths its current run has opened
    replaced,  \* history: process -> the paths that held data when it opened them
    earlier,   \* history: process -> the ids of the keys drawn before its run began
    lastWrite, \* history: path -> the last write to it: by whom, the bytes, and
               \*          whether no other process wrote the file while the
               \*          writer had it open
    raced,     \* history: process -> another process wrote the file it has open
    call       \* a direct call of generate_csr: its arguments, state and result

vars == <<target, fs, pc, conf, cfg, key, csr, err, ndraws, runs, opened, replaced,
          earlier, lastWrite, raced, call>>

NoConf == [title |-> ""]

NoErr == [exc |-> "none", at |-> "none"]

NoCall == [cfg |-> NoCfg, key |-> NoKey, state |-> "none", result |-> NoCsr]

Running(p) == pc[p] \notin {"idle", "done", "failed"}

InitMain ==
    /\ target \in Hostnames
    /\ fs = [f \in Paths |-> NoFile]
    /\ pc = [p \in Procs |-> "idle"]
    /\ conf = [p \in Procs |-> NoConf]
    /\ cfg = [p \in Procs |-> NoCfg]
    /\ key = [p \in Procs |-> NoKey]
    /\ csr = [p \in Procs |-> NoCsr]
    /\ err = [p \in Procs |-> NoErr]
    /\ ndraws = 0
    /\ runs = 0
    /\ opened = [p \in Procs |-> {}]
    /\ replaced = [p \in Procs |-> {}]
    /\ earlier = [p \in Procs |-> {}]
    /\ lastWrite = [f \in Paths |-> [by |-> 0, bytes |-> <<>>, clean |-> TRUE]]
    /\ raced = [p \in Procs |-> FALSE]

Init == InitMain /\ call = NoCall

(***************************************************************************)
(* main                                                                    *)
(***************************************************************************)
Fail(p, e, stmt) ==
    /\ pc' = [pc EXCEPT ![p] = "failed"]
    /\ err' = [err EXCEPT ![p] = [exc |-> e, at |-> stmt]]

\* faulty variant: data.get("hostname", "a"), a default instead of the KeyError
MissingHostname_Defaulted(p) ==
    /\ cfg' = [cfg EXCEPT ![p] = [hostname |-> "a", dns_names |-> <<"a">>]]
    /\ pc' = [pc EXCEPT ![p] = "loaded"]
    /\ err' = [err EXCEPT ![p] = NoErr]

\* data["hostname"] raises KeyError: Config.load returns no Config
MissingHostname(p) ==
    /\ cfg' = [cfg EXCEPT ![p] = NoCfg]
    /\ Fail(p, "KeyError", "Config.load")

\* args = parse_args(); cfg = Config.load(args.config), in the first process
\* slot that is free
LoadConfig(p, data) ==
    /\ ~Running(p)
    /\ \A q \in Procs : q < p => Running(q)
    /\ HasHostname(data) => data.hostname = target
    /\ runs' = runs + 1
    /\ conf' = [conf EXCEPT ![p] = data]
    /\ key' = [key EXCEPT ![p] = NoKey]
    /\ csr' = [csr EXCEPT ![p] = NoCsr]
    /\ opened' = [opened EXCEPT ![p] = {}]
    /\ replaced' = [replaced EXCEPT ![p] = {}]
    /\ earlier' = [earlier EXCEPT ![p] = 1..ndraws]
    /\ raced' = [raced EXCEPT ![p] = FALSE]
    /\ IF ~Readable(data)
       THEN /\ cfg' = [cfg EXCEPT ![p] = NoCfg]
            /\ Fail(p, "OSError", "Config.load.open")
       ELSE IF HasHostname(data)
       THEN /\ cfg' = [cfg EXCEPT ![p] = load(data)]
            /\ pc' = [pc EXCEPT ![p] = "loaded"]
            /\ err' = [err EXCEPT ![p] = NoErr]
       ELSE MissingHostname(p)
    /\ UNCHANGED <<target, fs, ndraws, lastWrite, call>>

\* a run started after every earlier run has ended
Main(p, data) ==
    /\ runs < MaxRuns
    /\ \A q \in Procs : ~Running(q)
    /\ LoadConfig(p, data)

\* key = generate_key(cfg)
GenerateKey(p, len) ==
    /\ pc[p] = "loaded"
    /\ ndraws' = ndraws + 1
    /\ key' = [key EXCEPT ![p] = generate_key(cfg[p], ndraws + 1, len)]
    /\ pc' = [pc EXCEPT ![p] = "keyed"]
    /\ UNCHANGED <<target, fs, conf, cfg, csr, err, runs, opened, replaced, earlier,
                   lastWrite, raced, call>>

\* rsa.generate_private_key raises (no entropy, no memory)
GenerateKeyFails(p) ==
    /\ pc[p] = "loaded"
    /\ Fail(p, "Exception", "generate_key")
    /\ UNCHANGED <<target, fs, conf, cfg, key, csr, ndraws, runs, opened, replaced, earlier,
                   lastWrite, raced, call>>

\* outpath.open("wb") by process p on path f
OpenFile(p, f) ==
    /\ fs' = [fs EXCEPT ![f] = OpenTruncate(@)]
    /\ opened' = [opened EXCEPT ![p] = @ \cup {f}]
    /\ replaced' = [replaced EXCEPT ![p] = IF fs[f].data # <<>> THEN @ \cup {f} ELSE @]
    /\ raced' = [raced EXCEPT ![p] = FALSE]

\* the processes other than p that have path f open for writing
OtherWriters(p, f) ==
    {q \in Procs \ {p} :
        \/ pc[q] = "key_open" /\ key_path(cfg[q]) = f
        \/ pc[q] = "csr_open" /\ csr_path(cfg[q]) = f}

\* f.write(bytes), flushed as the with-block closes f, by process p on path f
WriteFile(p, f, bytes) ==
    /\ fs' = [fs EXCEPT ![f] = WriteAtStart(@, bytes)]
    /\ lastWrite' = [lastWrite EXCEPT
                        ![f] = [by |-> p, bytes |-> bytes, clean |-> ~raced[p]]]
    /\ raced' = [q \in Procs |-> IF q \in OtherWriters(p, f) THEN TRUE ELSE raced[q]]

\* write_key: keybytes = key.private_bytes(..); outpath.open("wb")
OpenKeyFile(p) ==
    /\ pc[p] = "keyed"
    /\ OpenFile(p, key_path(cfg[p]))
    /\ pc' = [pc EXCEPT ![p] = "key_open"]
    /\ UNCHANGED <<target, conf, cfg, key, csr, err, ndraws, runs, earlier, lastWrite, call>>

\* outpath.open("wb") raises OSError: the file is not touched
OpenKeyFileFails(p) ==
    /\ pc[p] = "keyed"
    /\ Fail(p, "OSError", "write_key.open")
    /\ UNCHANGED <<target, fs, conf, cfg, key, csr, ndraws, runs, opened, replaced, earlier,
                   lastWrite, raced, call>>

\* write_key: f.write(keybytes); print("Key written to ...")
WriteKeyFile(p) ==
    /\ pc[p] = "key_open"
    /\ WriteFile(p, key_path(cfg[p]), private_bytes(key[p]))
    /\ pc' = [pc EXCEPT ![p] = "key_written"]
    /\ UNCHANGED <<target, conf, cfg, key, csr, err, ndraws, runs, opened, replaced, earlier, call>>

\* f.write(keybytes) raises OSError (disk full): the file stays as open left it;
\* bytes that a failing write may leave in the file are not modelled
WriteKeyFileFails(p) ==
    /\ pc[p] = "key_open"
    /\ Fail(p, "OSError", "write_key.write")
    /\ UNCHANGED <<target, fs, conf, cfg, key, csr, ndraws, runs, opened, replaced, earlier,
                   lastWrite, raced, call>>

\* csr = generate_csr(cfg, key)
GenerateCsr(p) ==
    /\ pc[p] = "key_written"
    /\ csr' = [csr EXCEPT ![p] = generate_csr(cfg[p], key[p])]
    /\ pc' = [pc EXCEPT ![p] = "csr_built"]
    /\ UNCHANGED <<target, fs, conf, cfg, key, err, ndraws, runs, opened, replaced, earlier,
                   lastWrite, raced, call>>

\* the x509 library raises while building or signing the request
GenerateCsrFails(p) ==
    /\ pc[p] = "key_written"
    /\ Fail(p, "ValueError", "generate_csr")
    /\ UNCHANGED <<target, fs, conf, cfg, key, csr, ndraws, runs, opened, replaced, earlier,
                   lastWrite, raced, call>>

\* faulty variant: the CSR file is opened before the request is built
OpenCsrFile_BeforeBuild(p) ==
    /\ pc[p] = "key_written"
    /\ OpenFile(p, csr_path(cfg[p]))
    /\ pc' = [pc EXCEPT ![p] = "csr_open"]
    /\ UNCHANGED <<target, conf, cfg, key, csr, err, ndraws, runs, earlier, lastWrite, call>>

\* write_csr: outpath.open("wb")
OpenCsrFile(p) ==
    /\ pc[p] = "csr_built"
    /\ OpenFile(p, csr_path(cfg[p]))
    /\ pc' = [pc EXCEPT ![p] = "csr_open"]
    /\ UNCHANGED <<target, conf, cfg, key, csr, err, ndraws, runs, earlier, lastWrite, call>>

\* faulty variant: a failed open of the CSR file removes the key file
OpenCsrFileFails_Unlink(p) ==
    /\ pc[p] = "csr_built"
    /\ fs' = [fs EXCEPT ![key_path(cfg[p])] = NoFile]
    /\ Fail(p, "OSError", "write_csr.open")
    /\ UNCHANGED <<target, conf, cfg, key, csr, ndraws, runs, opened, replaced, earlier,
                   lastWrite, raced, call>>

\* outpath.open("wb") raises OSError: the file is not touched
OpenCsrFileFails(p) ==
    /\ pc[p] = "csr_built"
    /\ Fail(p, "OSError", "write_csr.open")
    /\ UNCHANGED <<target, fs, conf, cfg, key, csr, ndraws, runs, opened, replaced, earlier,
                   lastWrite, raced, call>>

\* write_csr: f.write(csr.public_bytes(PEM)); print("CSR written to ...")
WriteCsrFile(p) ==
    /\ pc[p] = "csr_open"
    /\ WriteFile(p, csr_path(cfg[p]), public_bytes(csr[p]))
    /\ pc' = [pc EXCEPT ![p] = "done"]
    /\ UNCHANGED <<target, conf, cfg, key, csr, err, ndraws, runs, opened, replaced, earlier, call>>

\* faulty variant: a failed write of the CSR file rolls the key file back (empties it)
WriteCsrFileFails_Rollback(p) ==
    /\ pc[p] = "csr_open"
    /\ fs' = [fs EXCEPT ![key_path(cfg[p])] = OpenTruncate(@)]
    /\ Fail(p, "OSError", "write_csr.write")
    /\ UNCHANGED <<target, conf, cfg, key, csr, ndraws, runs, opened, replaced, earlier,
                   lastWrite, raced, call>>

\* f.write(..) raises OSError: the CSR file stays as open left it
WriteCsrFileFails(p) ==
    /\ pc[p] = "csr_open"
    /\ Fail(p, "OSError", "write_csr.write")
    /\ UNCHANGED <<target, fs, conf, cfg, key, csr, ndraws, runs, opened, replaced, earlier,
                   lastWrite, raced, call>>

\* the statements of main after Config.load
Step(p) ==
    \/ \E len \in 1..MaxPemLen : GenerateKey(p, len)
    \/ GenerateKeyFails(p)
    \/ OpenKeyFile(p)
    \/ OpenKeyFileFails(p)
    \/ WriteKeyFile(p)
    \/ WriteKeyFileFails(p)
    \/ GenerateCsr(p)
    \/ GenerateCsrFails(p)
    \/ OpenCsrFile(p)
    \/ OpenCsrFileFails(p)
    \/ WriteCsrFile(p)
    \/ WriteCsrFileFails(p)

\* runs of the tool one after the other, all for the hostname `target`
Next ==
    \/ \E p \in Procs, data \in ConfigFiles \cup {Unreadable} : Main(p, data)
    \/ \E p \in Procs : Step(p)

Spec == Init /\ [][Next]_vars

(***************************************************************************)
(* Two instances running at the same time for the hostname `target`.       *)
(***************************************************************************)
\* the files the concurrent instances read: the request of each has one SAN entry
ConcurrentFiles ==
    {d \in ConfigFiles :
        HasHostname(d) /\ ("dns_names" \in DOMAIN d => Len(d.dns_names) <= 1)}

\* an instance started whatever the other one is doing; each runs main once
MainConcurrent(p, data) ==
    /\ pc[p] = "idle"
    /\ LoadConfig(p, data)

NextConcurrent ==
    \/ \E p \in Procs, data \in ConcurrentFiles : MainConcurrent(p, data)
    \/ \E p \in Procs : Step(p)

SpecConcurrent == Init /\ [][NextConcurrent]_vars

(***************************************************************************)
(* generate_csr called on its own, with any Config and any key.            *)
(***************************************************************************)
Keys == {generate_key(NoCfg, n, len) : n \in 1..MaxRuns, len \in 1..MaxPemLen}

InitBuilder ==
    /\ InitMain
    /\ call \in {[cfg |-> c, key |-> k, state |-> "called", result |-> NoCsr] :
                    c \in Configurations, k \in Keys}

\* the call returns the signed request
BuilderReturns ==
    /\ call.state = "called"
    /\ call' = [call EXCEPT !.state = "returned",
                            !.result = generate_csr(call.cfg, call.key)]
    /\ UNCHANGED <<target, fs, pc, conf, cfg, key, csr, err, ndraws, runs, opened, replaced,
                   earlier, lastWrite, raced>>

\* the x509 library raises while building or signing the request
BuilderRaises ==
    /\ call.state = "called"
    /\ call' = [call EXCEPT !.state = "raised"]
    /\ UNCHANGED <<target, fs, pc, conf, cfg, key, csr, err, ndraws, runs, opened, replaced,
                   earlier, lastWrite, raced>>

NextBuilder == BuilderReturns \/ BuilderRaises

SpecBuilder == InitBuilder /\ [][NextBuilder]_vars

(***************************************************************************)
(* Reading the files back, as a consumer of the two PEM files does.         *)
(***************************************************************************)
\* the private key a PEM file holds, NoKey when the bytes are no such encoding
ReadKey(bytes) ==
    IF /\ bytes # <<>>
       /\ \A i \in 1..Len(bytes) :
             /\ bytes[i].label = "RSA PRIVATE KEY"
             /\ ~bytes[i].encrypted
             /\ bytes[i].part = i
             /\ bytes[i].key = bytes[1].key
       /\ Len(bytes) = bytes[1].key.pemlen
    THEN bytes[1].key
    ELSE NoKey

\* the request a PEM file holds, NoCsr when the bytes are no such encoding
ReadCsr(bytes) ==
    IF /\ bytes # <<>>
       /\ \A i \in 1..Len(bytes) :
             /\ bytes[i].label = "CERTIFICATE REQUEST"
             /\ bytes[i].part = i
             /\ bytes[i].csr = bytes[1].csr
       /\ Len(bytes) = 1 + Len(bytes[1].csr.san)
    THEN bytes[1].csr
    ELSE NoCsr

\* the request's signature verifies under the public key pub
Verifies(request, pub) ==
    /\ request.sig.hash = "SHA256"
    /\ request.sig.key = pub
    /\ request.pubkey = pub

Built(p) == csr[p] # NoCsr

(***************************************************************************)
(* C1.  A configuration file without `hostname` ends the run in Config.load *)
(* with a KeyError: no key has been generated, no output file has been      *)
(* opened, and the step that fails leaves the file system and the count of  *)
(* keys drawn as they were.                                                 *)
(***************************************************************************)
C1_LacksHostname(data) == Readable(data) /\ ~HasHostname(data)

C1_FailedLoad(p) ==
    /\ pc[p] = "failed"
    /\ err[p] = [exc |-> "KeyError", at |-> "Config.load"]
    /\ cfg[p] = NoCfg
    /\ key[p] = NoKey
    /\ csr[p] = NoCsr
    /\ opened[p] = {}

C1_MissingHostnameFailsFirst ==
    /\ [](\A p \in Procs :
            (pc[p] # "idle" /\ C1_LacksHostname(conf[p])) => C1_FailedLoad(p))
    /\ [][\A p \in Procs :
            (runs' # runs /\ pc'[p] # pc[p] /\ C1_LacksHostname(conf'[p]))
                => (fs' = fs /\ ndraws' = ndraws /\ C1_FailedLoad(p)')]_vars

\* a run on a file without hostname has failed, on a file system that an
\* earlier run had written
C1_Witness ==
    \E p \in Procs :
        /\ pc[p] = "failed"
        /\ C1_LacksHostname(conf[p])
        /\ "dns_names" \in DOMAIN conf[p]
        /\ fs[key_path([hostname |-> target])].data # <<>>

(***************************************************************************)
(* C2, as claimed.  The CSR is constructed before either output file is     *)
(* touched: a run that has opened an output file has its CSR.               *)
(***************************************************************************)
C2_CsrBuiltBeforeAnyFile ==
    \A p \in Procs : opened[p] # {} => Built(p)

(***************************************************************************)
(* C2, amended.  The order is generate_key, write the key file,             *)
(* generate_csr, write the CSR file: the CSR is built only after the key    *)
(* file holds the key, the CSR file is opened only after the CSR is built,  *)
(* and a failure of generate_csr leaves the key file written by the run on  *)
(* disk and the CSR file untouched by the run.                              *)
(***************************************************************************)
C2_KeyFileThenCsrThenCsrFile ==
    \A p \in Procs :
        /\ opened[p] # {} => key[p] # NoKey /\ key_path(cfg[p]) \in opened[p]
        /\ Built(p) =>
              /\ csr[p] = generate_csr(cfg[p], key[p])
              /\ fs[key_path(cfg[p])] = [exists |-> TRUE, data |-> private_bytes(key[p])]
        /\ csr_path(cfg[p]) \in opened[p] => Built(p)
        /\ err[p].at = "generate_csr" =>
              /\ pc[p] = "failed"
              /\ ~Built(p)
              /\ fs[key_path(cfg[p])] = [exists |-> TRUE, data |-> private_bytes(key[p])]
              /\ opened[p] = {key_path(cfg[p])}

\* generate_csr has failed in a run that wrote its key file
C2_Witness ==
    \E p \in Procs :
        /\ err[p].at = "generate_csr"
        /\ ~fs[csr_path(cfg[p])].exists

(***************************************************************************)
(* C3.  When write_csr fails (its open or its write), the run has ended     *)
(* with an OSError and the key file holds exactly the key the run wrote;    *)
(* a run that has failed takes no further step.                             *)
(***************************************************************************)
C3_CsrWriteFailed(p) == err[p].at \in {"write_csr.open", "write_csr.write"}

C3_KeyFileStaysAfterCsrFailure ==
    /\ [](\A p \in Procs :
            C3_CsrWriteFailed(p) =>
                /\ pc[p] = "failed"
                /\ err[p].exc = "OSError"
                /\ fs[key_path(cfg[p])] =
                       [exists |-> TRUE, data |-> private_bytes(key[p])])
    /\ [][\A p \in Procs :
            (pc[p] = "failed" /\ runs' = runs) => UNCHANGED <<fs, pc, key, csr, err>>]_vars

\* write_csr has failed in a run whose key file replaced an earlier key
C3_Witness ==
    \E p \in Procs :
        /\ C3_CsrWriteFailed(p)
        /\ key_path(cfg[p]) \in replaced[p]

(***************************************************************************)
(* C4, as claimed.  When the file gives dns_names as a list, of any length  *)
(* N >= 0, the SAN list of the request is that list.                        *)
(***************************************************************************)
C4_SanIsConfiguredList ==
    \A p \in Procs :
        (Built(p) /\ "dns_names" \in DOMAIN conf[p]) => csr[p].san = conf[p].dns_names

(***************************************************************************)
(* C4, amended.  When the file gives dns_names as a list of N >= 1 entries, *)
(* the SAN list is that list, entry for entry, repeats included; for N = 0  *)
(* the SAN list is the one entry `hostname`.                                *)
(***************************************************************************)
C4_SanIsNonEmptyConfiguredList ==
    \A p \in Procs :
        (Built(p) /\ "dns_names" \in DOMAIN conf[p]) =>
            IF Len(conf[p].dns_names) >= 1
            THEN /\ Len(csr[p].san) = Len(conf[p].dns_names)
                 /\ \A i \in 1..Len(csr[p].san) : csr[p].san[i] = conf[p].dns_names[i]
            ELSE csr[p].san = <<conf[p].hostname>>

\* a request built from a list of two different names
C4_Witness ==
    \E p \in Procs :
        /\ Built(p)
        /\ "dns_names" \in DOMAIN conf[p]
        /\ Len(conf[p].dns_names) = 2
        /\ conf[p].dns_names[1] # conf[p].dns_names[2]

(***************************************************************************)
(* C5.  When the file has hostname and no dns_names, the SAN list of the    *)
(* request is the one entry hostname, which is also the common name.        *)
(***************************************************************************)
C5_SanDefaultsToHostname ==
    \A p \in Procs :
        (Built(p) /\ "dns_names" \notin DOMAIN conf[p]) =>
            /\ Len(csr[p].san) = 1
            /\ csr[p].san[1] = conf[p].hostname
            /\ csr[p].subject = conf[p].hostname

C5_Witness ==
    \E p \in Procs : Built(p) /\ "dns_names" \notin DOMAIN conf[p]

(***************************************************************************)
(* C6, as claimed.  generate_csr, given a Config with empty dns_names,      *)
(* returns no request.                                                      *)
(***************************************************************************)
C6_EmptyDnsNamesRejected ==
    call.cfg.dns_names = <<>> => call.state # "returned"

(***************************************************************************)
(* C6, amended.  generate_csr checks nothing about dns_names: whenever it   *)
(* returns, the SAN list of the request is cfg.dns_names, the empty list    *)
(* included.  Only Config.load keeps dns_names from being empty.            *)
(***************************************************************************)
C6_BuilderCopiesDnsNames ==
    /\ call.state = "returned" =>
          /\ call.result.san = call.cfg.dns_names
          /\ call.result.subject = call.cfg.hostname
          /\ Verifies(call.result, public_key(call.key))
    /\ \A data \in ConfigFiles : HasHostname(data) => load(data).dns_names # <<>>

\* the call returned a request with an empty SAN list
C6_Witness ==
    /\ call.state = "returned"
    /\ call.cfg.dns_names = <<>>
    /\ call.result.san = <<>>

(***************************************************************************)
(* C7.  After a run that completed, the key read back from the key file is  *)
(* the key generate_key returned, and the signature of the request read     *)
(* back from the CSR file verifies under that key's public half.            *)
(***************************************************************************)
C7_KeyFileSignsCsrFile ==
    \A p \in Procs :
        pc[p] = "done" =>
            LET k == ReadKey(fs[key_path(cfg[p])].data)
                r == ReadCsr(fs[csr_path(cfg[p])].data)
            IN  /\ k # NoKey
                /\ k = key[p]
                /\ r # NoCsr
                /\ Verifies(r, public_key(k))

\* a completed run whose key is not the first one drawn
C7_Witness ==
    \E p \in Procs : pc[p] = "done" /\ key[p].id > 1

(***************************************************************************)
(* C8.  A run that completed opened exactly hostname + ".key" and           *)
(* hostname + ".csr"; its key is none of the keys drawn before it; and the  *)
(* two files hold the encodings of its key and its request and nothing      *)
(* else, whatever they held before.                                         *)
(***************************************************************************)
C8_RerunReplacesBothFiles ==
    \A p \in Procs :
        pc[p] = "done" =>
            /\ opened[p] = {conf[p].hostname \o ".key", conf[p].hostname \o ".csr"}
            /\ key[p].id \notin earlier[p]
            /\ fs[conf[p].hostname \o ".key"].data = private_bytes(key[p])
            /\ fs[conf[p].hostname \o ".csr"].data = public_bytes(csr[p])

\* a completed run that found both files holding an earlier run's output
C8_Witness ==
    \E p \in Procs :
        /\ pc[p] = "done"
        /\ earlier[p] # {}
        /\ replaced[p] = {key_path(cfg[p]), csr_path(cfg[p])}

(***************************************************************************)
(* C9, as claimed.  Once both instances have completed, each file holds     *)
(* what the instance that wrote it last wrote.                              *)
(***************************************************************************)
BothDone == \A p \in Procs : pc[p] = "done"

C9_LastWriteWins ==
    BothDone =>
        \A f \in Paths : lastWrite[f].by # 0 => fs[f].data = lastWrite[f].bytes

(***************************************************************************)
(* C9, amended.  No instance ever waits for the other.  Once both have      *)
(* completed, each file begins with what the instance that wrote it last    *)
(* wrote, and holds exactly that when no other instance wrote the file      *)
(* between the last writer's open and its write; otherwise the rest of a    *)
(* longer earlier write may follow.                                         *)
(***************************************************************************)
C9_LastWriteWinsUnlessOverlapped ==
    /\ \A p \in Procs : Running(p) => ENABLED Step(p)
    /\ BothDone =>
          \A f \in Paths :
              lastWrite[f].by # 0 =>
                  /\ Len(fs[f].data) >= Len(lastWrite[f].bytes)
                  /\ SubSeq(fs[f].data, 1, Len(lastWrite[f].bytes)) = lastWrite[f].bytes
                  /\ lastWrite[f].clean => fs[f].data = lastWrite[f].bytes

\* both completed, the key file last written by one and the CSR file by the other
C9_Witness ==
    /\ BothDone
    /\ \E f, g \in Paths :
          /\ lastWrite[f].by = 1 /\ lastWrite[f].clean
          /\ lastWrite[g].by = 2 /\ lastWrite[g].clean

(***************************************************************************)
(* C10.  Across sequential runs from an empty directory, whatever step      *)
(* each fails at, the CSR file of a hostname exists only if its key file    *)
(* exists.                                                                  *)
(***************************************************************************)
C10_CsrFileImpliesKeyFile ==
    \A h \in Hostnames :
        fs[csr_path([hostname |-> h])].exists => fs[key_path([hostname |-> h])].exists

\* the CSR file exists after a run that failed before opening it
C10_Witness ==
    \E p \in Procs :
        /\ pc[p] = "failed"
        /\ err[p].at \in {"Config.load.open", "Config.load", "generate_key",
                         "write_key.open", "write_key.write", "generate_csr"}
        /\ fs[csr_path([hostname |-> target])].exists

=============================================================================
